---- MODULE Spec2Model ----
(***************************************************************************)
(* A model of google/generativeai/responder.py: schema derivation from a   *)
(* function signature, schema field renaming, function declarations,       *)
(* Tool and FunctionLibrary construction / lookup / dispatch, the tool     *)
(* coercion layer, and the calling-mode / config coercions.                *)
(*                                                                         *)
(* Every operation of the module is synchronous.  An action applies one    *)
(* operation to an input drawn from a bounded set and records the call     *)
(* and its outcome in `last`; the objects that survive a call (a Tool, a   *)
(* FunctionLibrary, the dict the caller passed in) are kept in their own   *)
(* variables.                                                              *)
(***************************************************************************)
EXTENDS Integers, Sequences, FiniteSets, TLC

VARIABLES
    tool,       \* the Tool object most recently constructed, or NoObject
    lib,        \* the FunctionLibrary most recently constructed, or NoObject
    caller,     \* the dict object the caller passed to the last coercion, as it is after the call
    invoked,    \* the user implementations invoked by the last call, in order
    last        \* the last operation: its name, its arguments and its outcome

vars == <<tool, lib, caller, invoked, last>>

----------------------------------------------------------------------------
(* Bounds of the model. *)

NumNames == 3       \* distinct function names
MaxDecls == 2       \* declarations in one tool input
MaxTools == 2       \* tools in one library input
MaxArg == 1         \* argument values range over 0..MaxArg
MaxParams == 2      \* parameters of a function signature
MaxRequired == 1    \* length of an explicit `required` list
MaxDepth == 1       \* nesting depth of a schema below the top level

NameTable == <<"f", "g", "h", "k", "m", "n">>
Names == {NameTable[i] : i \in 1..NumNames}

----------------------------------------------------------------------------
(* Python outcomes: a call returns a value or raises an exception. *)

NoValue == [none |-> TRUE]
NoObject == [none |-> TRUE]

Return(v) == [raised |-> "", msg |-> <<>>, value |-> v]
Raise(exc, m) == [raised |-> exc, msg |-> m, value |-> NoValue]
Returned(o) == o.raised = ""

\* The names the module binds at import time (lines 1-8).  A function body
\* that reads any other global name raises NameError when it runs.
ModuleGlobals ==
    {"annotations", "Iterable", "Mapping", "Sequence", "inspect",
     "Any", "Callable", "Union", "TypedDict", "glm"}

SeqsUpTo(S, n) == UNION {[1..k -> S] : k \in 0..n}

Range(s) == {s[i] : i \in DOMAIN s}

RECURSIVE SelectSeqBy(_, _)
\* the subsequence of s whose elements are in the set S
SelectSeqBy(s, S) ==
    IF s = <<>> THEN <<>>
    ELSE IF Head(s) \in S THEN <<Head(s)>> \o SelectSeqBy(Tail(s), S)
    ELSE SelectSeqBy(Tail(s), S)

----------------------------------------------------------------------------
(* Schema derivation: _generate_schema. *)

NamedKinds == {"POSITIONAL_OR_KEYWORD", "KEYWORD_ONLY", "POSITIONAL_ONLY"}
VariadicKinds == {"VAR_POSITIONAL", "VAR_KEYWORD"}

\* An annotation as typing.get_origin / typing.get_args see it.  "empty" is
\* inspect.Parameter.empty.  `X | None` (PEP 604) has origin types.UnionType.
Annotations ==
    {[origin |-> "empty", args |-> {}],
     [origin |-> "none", args |-> {"int"}],
     [origin |-> "typing.Union", args |-> {"int", "NoneType"}],
     [origin |-> "typing.Union", args |-> {"int", "str"}],
     [origin |-> "types.UnionType", args |-> {"int", "NoneType"}]}

ParamNames == {"x", "y", "z", "w"}

Parameters ==
    [name : ParamNames, kind : NamedKinds \cup VariadicKinds,
     annotation : Annotations, has_default : BOOLEAN]

\* the field pydantic's schema() emits for one model field, title included
PydanticField(p) ==
    [name |-> p.name,
     type |-> IF p.annotation.origin = "empty" THEN "any" ELSE "typed",
     title |-> TRUE,
     nullable |-> FALSE]

IsNullableAnnotation(a) ==
    a.origin = "typing.Union" /\ "NoneType" \in a.args

\* lines 66-76: drop the title, mark nullable fields
PostProcess(field, annotation) ==
    [field EXCEPT !.title = FALSE,
                  !.nullable = IsNullableAnnotation(annotation)]

\* lines 83-95
InferredRequired(params) ==
    LET keep == {p \in Range(params) : ~p.has_default /\ p.kind \in NamedKinds}
        names == [i \in DOMAIN params |-> params[i].name]
    IN SelectSeqBy(names, {p.name : p \in keep})

\* lines 36-59: the parameters that become model fields
KeptParams(params) ==
    SelectSeqBy(params, {p \in Range(params) : p.kind \in NamedKinds})

\* lines 60-76: the properties of the schema
Properties(params) ==
    [i \in DOMAIN KeptParams(params) |->
        PostProcess(PydanticField(KeptParams(params)[i]), KeptParams(params)[i].annotation)]

\* lines 77-95; req is the list after lines 33-34
RequiredList(params, req) ==
    IF req # <<>> THEN req                                          \* line 78: truthiness
    ELSE InferredRequired(params)

\* `required` is None ([given |-> FALSE]) or a list
GenerateSchema(f, required) ==
    IF "pydantic" \notin ModuleGlobals
    THEN Raise("NameError", <<"pydantic">>)                         \* lines 41, 60
    ELSE IF KeptParams(f.params) # <<>> /\ "typing" \notin ModuleGlobals
    THEN Raise("NameError", <<"typing">>)                           \* line 73
    ELSE Return([name |-> f.name,
                 properties |-> Properties(f.params),
                 required |-> RequiredList(f.params,
                                 IF required.given THEN required.list ELSE <<>>)])

----------------------------------------------------------------------------
(* Python dicts: functions from string keys to values.  A name is bound to an *)
(* object; `st` tracks the object the caller passed in (obj), the object the   *)
(* local name is bound to (loc), and whether the two are the same object.     *)

Str(s) == [str |-> s]
None == [py_none |-> TRUE]

EmptyDict == [k \in {} |-> None]
DictPop(d, k) == [x \in (DOMAIN d) \ {k} |-> d[x]]
DictSet(d, k, v) == [x \in (DOMAIN d) \cup {k} |-> IF x = k THEN v ELSE d[x]]

Bind(o) == [obj |-> o, loc |-> o, same |-> TRUE]
\* name = name.copy(): the name is rebound to a new object with the same items
CopyStep(st) == [st EXCEPT !.same = FALSE]
\* name.pop(k, ...)
PopStep(st, k) ==
    [st EXCEPT !.loc = DictPop(st.loc, k),
               !.obj = IF st.same THEN DictPop(st.loc, k) ELSE st.obj]
\* name[k] = v
SetStep(st, k, v) ==
    [st EXCEPT !.loc = DictSet(st.loc, k, v),
               !.obj = IF st.same THEN DictSet(st.loc, k, v) ELSE st.obj]
\* the object held under key k was changed in place by a callee: every dict
\* that holds a reference to it sees the change
NestedWrite(d, k, after) ==
    IF k \in DOMAIN d THEN [d EXCEPT ![k] = after] ELSE d

----------------------------------------------------------------------------
(* Schema field renaming: _rename_schema_fields. *)

Upper(s) ==
    CASE s = "string" -> "STRING"
      [] s = "array" -> "ARRAY"
      [] s = "object" -> "OBJECT"
      [] OTHER -> s

LeafSchemas ==
    {d \in UNION {[K -> {Str("string"), Str("array"), Str("object"), Str("int64")}] :
                    K \in SUBSET {"type", "format"}} :
        /\ "type" \in DOMAIN d => d["type"] # Str("int64")
        /\ "format" \in DOMAIN d => d["format"] = Str("int64")}

RECURSIVE SchemasOfDepth(_)
SchemasOfDepth(n) ==
    IF n = 0 THEN LeafSchemas
    ELSE LET sub == SchemasOfDepth(n - 1)
         IN {d : d \in LeafSchemas}
            \cup {DictSet(d, "items", i) : d \in LeafSchemas, i \in sub}
            \cup {DictSet(d, "properties", [k \in {"a"} |-> q]) : d \in LeafSchemas, q \in sub}
            \cup {DictSet(DictSet(d, "items", i), "properties", [k \in {"a"} |-> q]) :
                     d \in LeafSchemas, i \in sub, q \in sub}

Schemas == SchemasOfDepth(MaxDepth) \cup {None}

RECURSIVE RenameSchemaFields(_)
\* returns [ret: the renamed schema, arg: the argument object after the call]
RenameSchemaFields(schema) ==
    IF schema = None THEN [ret |-> schema, arg |-> schema]              \* lines 101-102
    ELSE
    LET s0 == CopyStep(Bind(schema))                                    \* line 104
        hasType == "type" \in DOMAIN s0.loc
        s1 == PopStep(s0, "type")                                       \* line 106
        s2 == IF hasType                                                \* lines 107-108
              THEN SetStep(s1, "type_", Str(Upper(s0.loc["type"].str)))
              ELSE s1
        hasFormat == "format" \in DOMAIN s2.loc
        s3 == PopStep(s2, "format")                                     \* line 110
        s4 == IF hasFormat                                              \* lines 111-112
              THEN SetStep(s3, "format_", s2.loc["format"])
              ELSE s3
        hasItems == "items" \in DOMAIN s4.loc
        ri == IF hasItems THEN RenameSchemaFields(s4.loc["items"])      \* line 116
              ELSE [ret |-> None, arg |-> None]
        s5 == PopStep(s4, "items")                                      \* line 114
        s6 == IF hasItems THEN SetStep(s5, "items", ri.ret) ELSE s5
        hasProps == "properties" \in DOMAIN s6.loc
        props == IF hasProps THEN s6.loc["properties"] ELSE EmptyDict
        rp == [k \in DOMAIN props |-> RenameSchemaFields(props[k])]     \* line 120
        s7 == PopStep(s6, "properties")                                 \* line 118
        s8 == IF hasProps
              THEN SetStep(s7, "properties", [k \in DOMAIN props |-> rp[k].ret])
              ELSE s7
        \* the nested objects stay shared with the caller's dict
        a1 == IF hasItems /\ ~s8.same
              THEN NestedWrite(s8.obj, "items", ri.arg) ELSE s8.obj
        a2 == IF hasProps /\ ~s8.same
              THEN NestedWrite(a1, "properties",
                               [k \in DOMAIN props |-> rp[k].arg])
              ELSE a1
    IN [ret |-> s8.loc, arg |-> a2]                                     \* line 122

----------------------------------------------------------------------------
(* Calling mode: _FUNCTION_CALLING_MODE and to_function_calling_mode. *)

LowerOf(c) ==
    CASE c = "A" -> "a" [] c = "D" -> "d" [] c = "E" -> "e" [] c = "M" -> "m"
      [] c = "N" -> "n" [] c = "O" -> "o" [] c = "T" -> "t" [] c = "U" -> "u"
      [] c = "Y" -> "y" [] c = "B" -> "b" [] c = "G" -> "g" [] c = "S" -> "s"
      [] OTHER -> c

UpperOf(c) ==
    CASE c = "a" -> "A" [] c = "d" -> "D" [] c = "e" -> "E" [] c = "m" -> "M"
      [] c = "n" -> "N" [] c = "o" -> "O" [] c = "t" -> "T" [] c = "u" -> "U"
      [] c = "y" -> "Y" [] c = "b" -> "B" [] c = "g" -> "G" [] c = "s" -> "S"
      [] OTHER -> c

\* str.lower()
Lower(s) == [i \in DOMAIN s |-> LowerOf(s[i])]

\* glm.FunctionCallingConfig.Mode, an IntEnum
ModeCode(m) ==
    CASE m = "MODE_UNSPECIFIED" -> 0 [] m = "AUTO" -> 1 [] m = "ANY" -> 2 [] m = "NONE" -> 3

Modes == {"MODE_UNSPECIFIED", "AUTO", "ANY", "NONE"}

IntKey(i) == [int |-> i]
EnumKey(m) == [enum |-> m]
StrKey(s) == [chars |-> s]

IsStr(x) == DOMAIN x = {"chars"}
IsEnum(x) == DOMAIN x = {"enum"}
IsInt(x) == DOMAIN x = {"int"}

\* dict keys compare by == and hash: an IntEnum member equals its integer code
KeyCanon(x) == IF IsEnum(x) THEN IntKey(ModeCode(x.enum)) ELSE x

\* lines 376-391, as written
FUNCTION_CALLING_MODE ==
    {<<IntKey(1), "AUTO">>, <<EnumKey("AUTO"), "AUTO">>,
     <<StrKey(<<"m","o","d","e","_","a","u","t","o">>), "AUTO">>,
     <<StrKey(<<"a","u","t","o">>), "AUTO">>,
     <<IntKey(2), "ANY">>, <<EnumKey("ANY"), "ANY">>,
     <<StrKey(<<"m","o","d","e","_","a","n","y">>), "ANY">>,
     <<StrKey(<<"a","n","y">>), "ANY">>,
     <<IntKey(3), "NONE">>, <<EnumKey("NONE"), "NONE">>,
     <<StrKey(<<"m","o","d","e","_","n","o","n","e">>), "NONE">>,
     <<StrKey(<<"n","o","n","e">>), "NONE">>}

DictLookup(table, x) ==
    LET hits == {e \in table : KeyCanon(e[1]) = KeyCanon(x)}
    IN IF hits = {} THEN Raise("KeyError", <<x>>)
       ELSE Return((CHOOSE e \in hits : TRUE)[2])

\* to_function_calling_mode without the lower-casing of line 399
ToFunctionCallingModeNoLower(x) ==
    DictLookup(FUNCTION_CALLING_MODE, x)

\* lines 397-400
ToFunctionCallingMode(x) ==
    LET k == IF IsStr(x) THEN StrKey(Lower(x.chars)) ELSE x
    IN DictLookup(FUNCTION_CALLING_MODE, k)

----------------------------------------------------------------------------
(* Config coercion: to_function_calling_config and to_tool_config. *)

PyDict(d) == [dict |-> d]
IsDict(x) == DOMAIN x = {"dict"}
\* an instance of glm.FunctionCallingConfig / glm.ToolConfig holding fields
FunctionCallingConfig(fields) == [fcc |-> fields]
IsFunctionCallingConfig(x) == DOMAIN x = {"fcc"}
ToolConfig(fields) == [tool_config |-> fields]
IsToolConfig(x) == DOMAIN x = {"tool_config"}
Enum(m) == [enum |-> m]

Bogus == <<"b", "o", "g", "u", "s">>

ConfigModes ==
    {IntKey(2), IntKey(7), EnumKey("AUTO"), EnumKey("MODE_UNSPECIFIED"),
     StrKey(<<"A", "N", "Y">>), StrKey(<<"m", "o", "d", "e", "_", "n", "o", "n", "e">>),
     StrKey(Bogus)}

AllowedNames == {<<>>, <<"f">>}

FccDicts ==
    {PyDict(d) : d \in
        {EmptyDict}
        \cup {[k \in {"mode"} |-> m] : m \in ConfigModes}
        \cup {[k \in {"allowed_function_names"} |-> [list |-> a]] : a \in AllowedNames}
        \cup {[k \in {"mode", "allowed_function_names"} |->
                 IF k = "mode" THEN m ELSE [list |-> a]] :
                 m \in ConfigModes, a \in AllowedNames}}

FccObjects == {FunctionCallingConfig([k \in {"mode"} |-> Enum(m)]) : m \in {"AUTO", "ANY"}}

FccInputs == ConfigModes \cup FccDicts \cup FccObjects \cup {None}

\* lines 413-428; returns [out: the outcome, arg: the argument object after the call]
ToFunctionCallingConfig(obj) ==
    IF IsFunctionCallingConfig(obj)
    THEN [out |-> Return(obj), arg |-> obj]                             \* lines 414-415
    ELSE IF IsEnum(obj) \/ IsStr(obj) \/ IsInt(obj)
    THEN LET m == ToFunctionCallingMode(obj)                            \* line 417
         IN [out |-> IF Returned(m)
                     THEN Return(FunctionCallingConfig([k \in {"mode"} |-> Enum(m.value)]))
                     ELSE m,
             arg |-> obj]
    ELSE IF IsDict(obj)
    THEN LET s0 == CopyStep(Bind(obj.dict))                             \* line 419
             hasMode == "mode" \in DOMAIN s0.loc
             s1 == PopStep(s0, "mode")                                  \* line 420
             m == ToFunctionCallingMode(s0.loc["mode"])                 \* line 421
             s2 == SetStep(s1, "mode", Enum(m.value))
         IN IF ~hasMode
            THEN [out |-> Raise("KeyError", <<"mode">>), arg |-> PyDict(s0.obj)]
            ELSE IF ~Returned(m)
            THEN [out |-> m, arg |-> PyDict(s1.obj)]
            ELSE [out |-> Return(FunctionCallingConfig(s2.loc)),        \* line 428
                  arg |-> PyDict(s2.obj)]
    ELSE [out |-> Raise("TypeError", <<"glm.FunctionCallingConfig">>),  \* lines 423-426
          arg |-> obj]

ToolConfigDicts ==
    {PyDict(d) : d \in
        {EmptyDict}
        \cup {[k \in {"function_calling_config"} |-> v] : v \in FccInputs}}

ToolConfigObjects ==
    {ToolConfig([k \in {"function_calling_config"} |-> v]) : v \in FccObjects}

ToolConfigInputs == ToolConfigDicts \cup ToolConfigObjects \cup {None}

\* lines 438-449; returns [out: the outcome, arg: the argument object after the call]
ToToolConfig(obj) ==
    IF IsToolConfig(obj)
    THEN [out |-> Return(obj), arg |-> obj]                             \* lines 439-440
    ELSE IF IsDict(obj)
    THEN LET s0 == Bind(obj.dict)
             hasKey == "function_calling_config" \in DOMAIN s0.loc
             s1 == PopStep(s0, "function_calling_config")               \* line 442
             r == ToFunctionCallingConfig(s0.loc["function_calling_config"])   \* line 443
             \* the popped value is no longer held by the dict
             s2 == SetStep(s1, "function_calling_config", r.out.value)  \* line 444
         IN IF ~hasKey
            THEN [out |-> Raise("KeyError", <<"function_calling_config">>),
                  arg |-> PyDict(s0.obj)]
            ELSE IF ~Returned(r.out)
            THEN [out |-> r.out, arg |-> PyDict(s1.obj)]
            ELSE [out |-> Return(ToolConfig(s2.loc)), arg |-> PyDict(s2.obj)]  \* line 445
    ELSE [out |-> Raise("TypeError", <<"glm.ToolConfig">>), arg |-> obj]   \* lines 446-449

----------------------------------------------------------------------------
(* Function declarations: FunctionDeclaration, CallableFunctionDeclaration, *)
(* _make_function_declaration, _encode_fd.                                  *)

NoFunction == [none |-> TRUE]

\* def <name>(x: int, y: int = 0), the signature of every user function of the model
UserParams ==
    <<[name |-> "x", kind |-> "POSITIONAL_OR_KEYWORD",
       annotation |-> [origin |-> "none", args |-> {"int"}], has_default |-> FALSE],
      [name |-> "y", kind |-> "POSITIONAL_OR_KEYWORD",
       annotation |-> [origin |-> "none", args |-> {"int"}], has_default |-> TRUE]>>

\* "sum" returns x + y, a number; "struct" returns the dict {"x": x, "y": y}
Bodies == {"sum", "struct"}
Functions == [name : Names, params : {UserParams}, body : Bodies]

Num(n) == [num |-> n]

ArgValues == 0..MaxArg
\* FunctionCall.args: a mapping from argument names to values
ArgMaps == UNION {[K -> ArgValues] : K \in SUBSET {"x", "y"}}
FunctionCalls == [name : Names \cup {"absent"}, args : ArgMaps]

\* function(kwargs as keyword arguments): binding the keyword arguments to the signature, then the body
Apply(fn, kwargs) ==
    LET needed == {p.name : p \in {q \in Range(fn.params) : ~q.has_default}}
        known == {p.name : p \in Range(fn.params)}
        x == kwargs["x"]
        y == IF "y" \in DOMAIN kwargs THEN kwargs["y"] ELSE 0
    IN IF ~(needed \subseteq DOMAIN kwargs) \/ ~(DOMAIN kwargs \subseteq known)
       THEN Raise("TypeError", <<"arguments">>)
       ELSE IF fn.body = "sum" THEN Return(Num(x + y))
       ELSE Return(PyDict([k \in {"x", "y"} |-> IF k = "x" THEN Num(x) ELSE Num(y)]))

\* a declaration object: its class, the name held by its _proto (or by the
\* message itself), and the bound implementation
ProtoDecl(n) == [cls |-> "glm.FunctionDeclaration", name |-> n, function |-> NoFunction]
PlainDecl(n) == [cls |-> "FunctionDeclaration", name |-> n, function |-> NoFunction]
CallableDecl(n, fn) == [cls |-> "CallableFunctionDeclaration", name |-> n, function |-> fn]

ProtoDecls == {ProtoDecl(n) : n \in Names}
PlainDecls == {PlainDecl(n) : n \in Names}
CallableDecls == {CallableDecl(fn.name, fn) : fn \in Functions}

\* The attributes an instance has.  The property and method definitions of
\* lines 132-151 are nested in the body of __init__ (line 126): they are
\* locals of that call, so the class itself defines only __init__ and
\* from_function, and an instance carries only _proto (and function).
ClassAttributes(cls) ==
    CASE cls = "glm.FunctionDeclaration" -> {"name", "description", "parameters"}
      [] cls = "FunctionDeclaration" -> {"_proto", "from_function"}
      [] cls = "CallableFunctionDeclaration" ->
            {"_proto", "from_function", "function", "__call__"}
      [] OTHER -> {}

\* fd.name
AttrName(fd) ==
    IF "name" \in ClassAttributes(fd.cls) THEN Return(fd.name)
    ELSE Raise("AttributeError", <<fd.cls, "name">>)

\* callable(declaration)
IsCallable(fd) == "__call__" \in ClassAttributes(fd.cls)

\* lines 230-234
EncodeFd(fd) ==
    IF fd.cls = "glm.FunctionDeclaration" THEN Return(fd)
    ELSE IF "to_proto" \in ClassAttributes(fd.cls) THEN Return(ProtoDecl(fd.name))
    ELSE Raise("AttributeError", <<fd.cls, "to_proto">>)

\* the inputs _make_function_declaration is given: an object of one of the
\* three declaration classes, a dict of constructor arguments (with or
\* without a "function" key), a python function, or something else
DeclObjects == ProtoDecls \cup PlainDecls \cup CallableDecls
DeclDicts ==
    {[shape |-> "dict", name |-> n, function |-> NoFunction] : n \in Names}
    \cup {[shape |-> "dict", name |-> fn.name, function |-> fn] : fn \in Functions}
DeclFunctions == {[shape |-> "function", name |-> fn.name, function |-> fn] : fn \in Functions}
DeclOther == [shape |-> "other", name |-> "", function |-> NoFunction]
AsInput(fd) == [shape |-> fd.cls, name |-> fd.name, function |-> fd.function]
AsObject(inp) == [cls |-> inp.shape, name |-> inp.name, function |-> inp.function]
DeclInputs ==
    {AsInput(fd) : fd \in DeclObjects} \cup DeclDicts \cup DeclFunctions \cup {DeclOther}

\* line 172
FromSchema(schema, fn) ==
    IF Returned(schema) THEN Return(CallableDecl(schema.value.name, fn)) ELSE schema

\* lines 153-172
FromFunction(fn) ==
    FromSchema(GenerateSchema(fn, [given |-> FALSE, list |-> <<>>]), fn)    \* line 170

\* lines 211-227
MakeFunctionDeclaration(fun) ==
    IF fun.shape \in {"FunctionDeclaration", "CallableFunctionDeclaration",
                      "glm.FunctionDeclaration"}
    THEN Return(AsObject(fun))                                              \* lines 214-215
    ELSE IF fun.shape = "dict"
    THEN IF fun.function # NoFunction
         THEN Return(CallableDecl(fun.name, fun.function))                  \* line 218
         ELSE Return(PlainDecl(fun.name))                                   \* line 220
    ELSE IF fun.shape = "function"
    THEN FromFunction(fun.function)                                         \* line 222
    ELSE Raise("TypeError", <<"genai.FunctionDeclaraionType">>)             \* lines 224-227

\* the name the caller gave the declaration it passed in
InputName(inp) == inp.name

----------------------------------------------------------------------------
(* Tool: __init__, __getitem__, __call__. *)

EmptyIndex == [n \in {} |-> NoObject]

RECURSIVE CoerceFrom(_, _, _)
\* line 242, one element: r is the coerced declaration, or what the coercion raised
CoerceOne(fds, i, acc, r) ==
    IF Returned(r) THEN CoerceFrom(fds, i + 1, Append(acc, r.value)) ELSE r

\* line 242: the list comprehension stops at the first element that raises
CoerceFrom(fds, i, acc) ==
    IF i > Len(fds) THEN Return(acc)
    ELSE CoerceOne(fds, i, acc, MakeFunctionDeclaration(fds[i]))

RECURSIVE ToolIndexFrom(_, _, _)
\* lines 245-248, one declaration: name is fd.name, or what reading it raised
ToolIndexOne(decls, i, index, name) ==
    IF ~Returned(name) THEN name
    ELSE IF name.value \in DOMAIN index
    THEN Raise("ValueError", <<>>)                                          \* lines 246-247
    ELSE ToolIndexFrom(decls, i + 1,
             [n \in DOMAIN index \cup {name.value} |->
                 IF n = name.value THEN decls[i] ELSE index[n]])            \* line 248

\* lines 244-248
ToolIndexFrom(decls, i, index) ==
    IF i > Len(decls) THEN Return(index)
    ELSE ToolIndexOne(decls, i, index, AttrName(decls[i]))                  \* line 245

\* lines 250-252: the first declaration that cannot be encoded raises
EncodeAll(decls) ==
    IF \A i \in DOMAIN decls : Returned(EncodeFd(decls[i])) THEN Return(<<>>)
    ELSE EncodeFd(decls[CHOOSE i \in DOMAIN decls :
                           /\ ~Returned(EncodeFd(decls[i]))
                           /\ \A j \in 1..(i - 1) : Returned(EncodeFd(decls[j]))])

\* lines 250-252, then the object
ToolInitEncoded(decls, index, proto) ==
    IF ~Returned(proto) THEN proto
    ELSE Return([cls |-> "Tool", function_declarations |-> decls, index |-> index])

\* lines 243-248, then the rest
ToolInitIndexed(decls, index) ==
    IF ~Returned(index) THEN index
    ELSE ToolInitEncoded(decls, index.value, EncodeAll(decls))

\* line 242, then the rest
ToolInitCoerced(decls) ==
    IF ~Returned(decls) THEN decls
    ELSE ToolInitIndexed(decls.value, ToolIndexFrom(decls.value, 1, EmptyIndex))

\* lines 240-252
ToolInit(function_declarations) ==
    ToolInitCoerced(CoerceFrom(function_declarations, 1, <<>>))

\* the `name` argument of __getitem__: a str or a FunctionCall
IsStrArg(x) == DOMAIN x = {"str"}
ArgName(x) == IF IsStrArg(x) THEN x.str ELSE x.name

\* __getitem__ written with self._index.get(name): None for an absent name
GetItemOrNone(self, name) ==
    IF ArgName(name) \in DOMAIN self.index THEN Return(self.index[ArgName(name)])
    ELSE Return([cls |-> "NoneType", name |-> "", function |-> NoFunction])

\* lines 261-262
LookupKey(name) == IF ~IsStrArg(name) THEN name.name ELSE name.str

\* lines 258-264 (and 326-332): self._index[name]
GetItem(self, name) ==
    IF LookupKey(name) \in DOMAIN self.index
    THEN Return(self.index[LookupKey(name)])                                \* line 264
    ELSE Raise("KeyError", <<LookupKey(name)>>)

FunctionResponse(n, r) == [name |-> n, response |-> r]

\* lines 198-200; result is what the implementation returned or raised
Respond(self, fc, result) ==
    [out |-> IF ~Returned(result) THEN result
             ELSE Return(FunctionResponse(fc.name,
                     IF ~IsDict(result.value)                               \* lines 198-199
                     THEN PyDict([k \in {"result"} |-> result.value])
                     ELSE result.value)),
     inv |-> <<[function |-> self.function, kwargs |-> fc.args]>>]

\* lines 196-200; returns [out: the outcome, inv: the implementations invoked]
DeclCall(self, fc) ==
    Respond(self, fc, Apply(self.function, fc.args))                        \* line 197

\* lines 268-271; declaration is what the lookup returned or raised
Dispatch(declaration, fc) ==
    IF ~Returned(declaration) THEN [out |-> declaration, inv |-> <<>>]
    ELSE IF ~IsCallable(declaration.value)
    THEN [out |-> Return(None), inv |-> <<>>]                               \* lines 268-269
    ELSE DeclCall(declaration.value, fc)                                    \* line 271

\* lines 266-271
ToolCall(self, fc) == Dispatch(GetItem(self, fc), fc)                       \* line 267

----------------------------------------------------------------------------
(* Tool coercion: _make_tool and _make_tools. *)

DeclSeqs == SeqsUpTo(DeclInputs, MaxDecls)

\* the Tool objects that can exist: the results of successful constructions
ToolInstances == {o.value : o \in {r \in {ToolInit(s) : s \in DeclSeqs} : Returned(r)}}

\* the declaration lists used inside the list-shaped tool inputs of a
\* library: messages under the first two names, and one wrapper object
LibProtoSeqs ==
    {<<>>,
     <<AsInput(ProtoDecl(NameTable[1]))>>,
     <<AsInput(ProtoDecl(NameTable[2]))>>,
     <<AsInput(ProtoDecl(NameTable[1])), AsInput(ProtoDecl(NameTable[2]))>>,
     <<AsInput(ProtoDecl(NameTable[1])), AsInput(ProtoDecl(NameTable[1]))>>}
LibDeclSeqs ==
    LibProtoSeqs
    \cup {<<AsInput(PlainDecl(NameTable[1]))>>,
          <<AsInput(ProtoDecl(NameTable[1])), AsInput(PlainDecl(NameTable[2]))>>}

LibFunction == [name |-> NameTable[1], params |-> UserParams, body |-> "sum"]

\* the inputs _make_tool is given (ToolType)
ToolInputs ==
    {[shape |-> "Tool", tool |-> t] : t \in ToolInstances}
    \cup {[shape |-> "glm.Tool", fds |-> s] : s \in LibProtoSeqs}
    \cup {[shape |-> "dict_tool", fds |-> s] : s \in LibDeclSeqs}
    \cup {[shape |-> "dict_fd", name |-> n, has_function |-> FALSE] : n \in Names}
    \cup {[shape |-> "dict_fd", name |-> NameTable[1], has_function |-> TRUE]}
    \cup {[shape |-> "iterable", fds |-> s] : s \in LibDeclSeqs}
    \cup {[shape |-> "single", fd |-> d] :
             d \in {AsInput(fd) : fd \in ProtoDecls}
                   \cup {AsInput(PlainDecl(NameTable[1])),
                         AsInput(CallableDecl(NameTable[1], LibFunction)),
                         [shape |-> "function", name |-> NameTable[1], function |-> LibFunction],
                         DeclOther}}

\* the declarations _make_tool hands to Tool(...)
ToolArguments(t) ==
    IF t.shape \in {"glm.Tool", "dict_tool", "iterable"} THEN t.fds     \* lines 290, 293, 298
    ELSE IF t.shape = "dict_fd" THEN <<AsInput(ProtoDecl(t.name))>>     \* lines 295-296
    ELSE <<t.fd>>                                                       \* line 301

\* lines 300-306: any exception of the last branch becomes a TypeError
Guarded(t, r) ==
    IF t.shape = "single" /\ ~Returned(r) THEN Raise("TypeError", <<"genai.ToolType">>)
    ELSE r

\* lines 286-306
MakeTool(t) ==
    IF t.shape = "Tool" THEN Return(t.tool)                             \* lines 287-288
    ELSE IF t.shape = "dict_fd" /\ t.has_function
    \* line 296: the glm.FunctionDeclaration message has no field named "function"
    THEN Raise("ValueError", <<"Unknown field", "function">>)
    ELSE Guarded(t, ToolInit(ToolArguments(t)))

RECURSIVE MakeEach(_, _, _)
\* line 351, one element: r is the coerced tool, or what the coercion raised
MakeOne(ts, i, acc, r) ==
    IF Returned(r) THEN MakeEach(ts, i + 1, Append(acc, r.value)) ELSE r

\* line 351
MakeEach(ts, i, acc) ==
    IF i > Len(ts) THEN Return(acc)
    ELSE MakeOne(ts, i, acc, MakeTool(ts[i]))

AllSingle(ts) == \A i \in DOMAIN ts : Len(ts[i].function_declarations) = 1

\* line 354: the first declaration of every tool, as one iterable tool input
FirstDeclarations(ts) ==
    [shape |-> "iterable",
     fds |-> [i \in DOMAIN ts |-> AsInput(ts[i].function_declarations[1])]]

\* the list holding one tool, or what building that tool raised
Singleton(r) == IF Returned(r) THEN Return(<<r.value>>) ELSE r

\* the inputs _make_tools is given (ToolsType): a non-mapping iterable of
\* tool inputs, or one tool input that is a mapping or is not iterable
ToolsInputs ==
    {[iterable |-> TRUE, items |-> s] : s \in SeqsUpTo(ToolInputs, MaxTools)}
    \cup {[iterable |-> FALSE, items |-> <<t>>] : t \in {u \in ToolInputs : u.shape # "iterable"}}

\* lines 352-355 with any() in place of all() on line 352
FlattenAnySingle(made) ==
    IF ~Returned(made) THEN made
    ELSE IF /\ Len(made.value) > 1
            /\ \E i \in DOMAIN made.value : Len(made.value[i].function_declarations) = 1
    THEN Singleton(MakeTool(
            [shape |-> "iterable",
             fds |-> [i \in DOMAIN made.value |->
                        IF made.value[i].function_declarations = <<>> THEN DeclOther
                        ELSE AsInput(made.value[i].function_declarations[1])]]))
    ELSE made

\* lines 352-355; made is the list of line 351, or what building it raised
Flatten(made) ==
    IF ~Returned(made) THEN made
    ELSE IF Len(made.value) > 1 /\ AllSingle(made.value)                    \* line 352
    THEN Singleton(MakeTool(FirstDeclarations(made.value)))                 \* line 354
    ELSE made                                                               \* line 355

\* lines 349-358
MakeTools(tools) ==
    IF tools.iterable
    THEN Flatten(MakeEach(tools.items, 1, <<>>))                            \* lines 351-355
    ELSE Singleton(MakeTool(tools.items[1]))                                \* lines 357-358

----------------------------------------------------------------------------
(* FunctionLibrary: __init__, __getitem__, __call__. *)

\* every declaration of every tool, in iteration order (lines 316-317)
RECURSIVE AllDeclarations(_)
AllDeclarations(ts) ==
    IF ts = <<>> THEN <<>>
    ELSE Head(ts).function_declarations \o AllDeclarations(Tail(ts))

RECURSIVE LibraryIndexFrom(_, _, _)
\* lines 318-324, one declaration: name is declaration.name, or what reading it raised
LibraryIndexOne(decls, i, index, name) ==
    IF ~Returned(name) THEN name
    ELSE IF name.value \in DOMAIN index
    THEN Raise("ValueError",                                                \* lines 319-323
               <<"A FunctionDeclaration named", name.value, "is already defined.">>)
    ELSE LibraryIndexFrom(decls, i + 1,
             [n \in DOMAIN index \cup {name.value} |->
                 IF n = name.value THEN decls[i] ELSE index[n]])            \* line 324

\* lines 316-324
LibraryIndexFrom(decls, i, index) ==
    IF i > Len(decls) THEN Return(index)
    ELSE LibraryIndexOne(decls, i, index, AttrName(decls[i]))               \* line 318

\* the library object, or what building its index raised
LibraryIndexed(ts, index) ==
    IF ~Returned(index) THEN index
    ELSE Return([cls |-> "FunctionLibrary", tools |-> ts, index |-> index.value])

\* the index in which a later declaration overwrites an earlier one of its name
OverwritingIndex(ds) ==
    Return([n \in {ds[i].name : i \in DOMAIN ds} |->
              ds[CHOOSE i \in DOMAIN ds :
                    ds[i].name = n /\ \A j \in DOMAIN ds : ds[j].name = n => j <= i]])

\* lines 314-324 without the collision check of lines 319-323
LibraryFromToolsNoCheck(ts) ==
    IF ~Returned(ts) THEN ts
    ELSE LibraryIndexed(ts.value, OverwritingIndex(AllDeclarations(ts.value)))

\* lines 314-324; ts is the list of line 313, or what building it raised
LibraryFromTools(ts) ==
    IF ~Returned(ts) THEN ts
    ELSE LibraryIndexed(ts.value,
                        LibraryIndexFrom(AllDeclarations(ts.value), 1, EmptyIndex))

\* lines 312-324
FunctionLibraryInit(tools) == LibraryFromTools(MakeTools(tools))            \* line 313

Part(response) == [function_response |-> response]

\* line 340; r is what the declaration's call returned or raised
InPart(r) ==
    IF Returned(r.out) THEN [out |-> Return(Part(r.out.value)), inv |-> r.inv]
    ELSE r

\* lines 336-340; declaration is what the lookup returned or raised
LibraryDispatch(declaration, fc) ==
    IF ~Returned(declaration) THEN [out |-> declaration, inv |-> <<>>]
    ELSE IF ~IsCallable(declaration.value)
    THEN [out |-> Return(None), inv |-> <<>>]                               \* lines 336-337
    ELSE InPart(DeclCall(declaration.value, fc))                            \* lines 339-340

\* lines 334-340
LibraryCall(self, fc) == LibraryDispatch(GetItem(self, fc), fc)             \* line 335

----------------------------------------------------------------------------
(* The inputs of the schema operations. *)

ParamNameTable == <<"x", "y", "z", "w">>
KindOrder(k) ==
    CASE k = "POSITIONAL_ONLY" -> 1 [] k = "POSITIONAL_OR_KEYWORD" -> 2
      [] k = "VAR_POSITIONAL" -> 3 [] k = "KEYWORD_ONLY" -> 4 [] k = "VAR_KEYWORD" -> 5

\* the parameter lists python accepts in a def
IsSignature(ps) ==
    /\ \A i \in DOMAIN ps : ps[i].name = ParamNameTable[i]
    /\ \A i \in DOMAIN ps : ps[i].kind \in VariadicKinds => ~ps[i].has_default
    /\ \A i, j \in DOMAIN ps : i < j =>
          /\ KindOrder(ps[i].kind) <= KindOrder(ps[j].kind)
          /\ ps[i].kind \in VariadicKinds => ps[i].kind # ps[j].kind
          /\ (KindOrder(ps[j].kind) <= 2 /\ ps[i].has_default) => ps[j].has_default

Signatures ==
    UNION {{ps \in [1..k -> Parameters] : IsSignature(ps)} : k \in 0..MaxParams}

SchemaFunctions == [name : {NameTable[1]}, params : Signatures, body : {"sum"}]

\* the `required` argument: None, or a list of names (parameters or not)
RequiredArgs ==
    {[given |-> FALSE, list |-> <<>>]}
    \cup {[given |-> TRUE, list |-> l] : l \in SeqsUpTo({"x", "y", "q"}, MaxRequired)}

----------------------------------------------------------------------------
(* The inputs of to_function_calling_mode. *)

RECURSIVE CaseVariants(_)
\* every spelling of the lower-case string s in upper and lower case letters
CaseVariants(s) ==
    IF s = <<>> THEN {<<>>}
    ELSE LET rest == CaseVariants(Tail(s))
         IN {<<c>> \o r : c \in {Head(s), UpperOf(Head(s))}, r \in rest}

AliasStrings == {e[1].chars : e \in {t \in FUNCTION_CALLING_MODE : IsStr(t[1])}}

ModeInputs ==
    {IntKey(i) : i \in 0..4}
    \cup {EnumKey(m) : m \in Modes}
    \cup {StrKey(v) : v \in UNION {CaseVariants(a) : a \in AliasStrings}}
    \cup {StrKey(v) : v \in CaseVariants(Bogus)}
    \cup {StrKey(v) : v \in {<<>>, <<"m", "o", "d", "e">>, <<"m", "o", "d", "e", "_">>,
                             <<"a", "n", "y", "_">>, <<"_", "a", "n", "y">>,
                             <<"a", "u", "t", "o", " ">>, <<"2">>,
                             <<"m", "o", "d", "e", "a", "n", "y">>}}

----------------------------------------------------------------------------
(* The state machine. *)

NoCall == [op |-> "none", args |-> <<>>, out |-> Return(None)]

Init ==
    /\ tool = NoObject
    /\ lib = NoObject
    /\ caller = None
    /\ invoked = <<>>
    /\ last = NoCall

Call(op, args, out) == [op |-> op, args |-> args, out |-> out]

\* No call has been made yet.  The objects of the module do not change after
\* construction, so a run is one construction or coercion, followed (for a
\* Tool or a FunctionLibrary) by one lookup or dispatch on the object built.
Idle == last = NoCall

GenerateSchemaCall ==
    /\ Idle
    /\ \E f \in SchemaFunctions, required \in RequiredArgs :
        /\ last' = Call("_generate_schema", <<f, required>>, GenerateSchema(f, required))
        /\ invoked' = <<>>
        /\ caller' = None
        /\ UNCHANGED <<tool, lib>>

RenameSchemaFieldsCall ==
    /\ Idle
    /\ \E schema \in Schemas : \E r \in {RenameSchemaFields(schema)} :
           /\ last' = Call("_rename_schema_fields", <<schema>>, Return(r.ret))
           /\ caller' = r.arg
           /\ invoked' = <<>>
           /\ UNCHANGED <<tool, lib>>

ToFunctionCallingModeCall ==
    /\ Idle
    /\ \E x \in ModeInputs :
        /\ last' = Call("to_function_calling_mode", <<x>>, ToFunctionCallingMode(x))
        /\ invoked' = <<>>
        /\ caller' = None
        /\ UNCHANGED <<tool, lib>>

ToFunctionCallingConfigCall ==
    /\ Idle
    /\ \E obj \in FccInputs : \E r \in {ToFunctionCallingConfig(obj)} :
           /\ last' = Call("to_function_calling_config", <<obj>>, r.out)
           /\ caller' = r.arg
           /\ invoked' = <<>>
           /\ UNCHANGED <<tool, lib>>

ToToolConfigCall ==
    /\ Idle
    /\ \E obj \in ToolConfigInputs : \E r \in {ToToolConfig(obj)} :
           /\ last' = Call("to_tool_config", <<obj>>, r.out)
           /\ caller' = r.arg
           /\ invoked' = <<>>
           /\ UNCHANGED <<tool, lib>>

ToolInitCall ==
    /\ Idle
    /\ \E fds \in DeclSeqs : \E r \in {ToolInit(fds)} :
           /\ last' = Call("Tool.__init__", <<fds>>, r)
           /\ tool' = IF Returned(r) THEN r.value ELSE NoObject
           /\ invoked' = <<>>
           /\ UNCHANGED <<lib, caller>>

\* __getitem__ reads only the name of a FunctionCall
LookupArgs ==
    {Str(n) : n \in Names \cup {"absent"}}
    \cup {fc \in FunctionCalls : DOMAIN fc.args = {}}

ToolGetItemCall ==
    /\ last.op = "Tool.__init__"
    /\ tool # NoObject
    /\ \E name \in LookupArgs :
          last' = Call("Tool.__getitem__", <<name>>, GetItem(tool, name))
    /\ invoked' = <<>>
    /\ UNCHANGED <<tool, lib, caller>>

ToolCallCall ==
    /\ last.op = "Tool.__init__"
    /\ tool # NoObject
    /\ \E fc \in FunctionCalls : \E r \in {ToolCall(tool, fc)} :
             /\ last' = Call("Tool.__call__", <<fc>>, r.out)
             /\ invoked' = r.inv
    /\ UNCHANGED <<tool, lib, caller>>

\* a CallableFunctionDeclaration built by its constructor, then called
DeclCallCall ==
    /\ Idle
    /\ \E d \in CallableDecls, fc \in FunctionCalls : \E r \in {DeclCall(d, fc)} :
           /\ last' = Call("CallableFunctionDeclaration.__call__", <<d, fc>>, r.out)
           /\ invoked' = r.inv
           /\ UNCHANGED <<tool, lib, caller>>

MakeToolsCall ==
    /\ Idle
    /\ \E tools \in ToolsInputs :
        /\ last' = Call("_make_tools", <<tools>>, MakeTools(tools))
        /\ invoked' = <<>>
        /\ UNCHANGED <<tool, lib, caller>>

FunctionLibraryInitFrom(inputs) ==
    /\ Idle
    /\ \E tools \in inputs : \E r \in {FunctionLibraryInit(tools)} :
           /\ last' = Call("FunctionLibrary.__init__", <<tools>>, r)
           /\ lib' = IF Returned(r) THEN r.value ELSE NoObject
           /\ invoked' = <<>>
           /\ UNCHANGED <<tool, caller>>

FunctionLibraryInitCall == FunctionLibraryInitFrom(ToolsInputs)

\* a library built from one existing Tool, or from a list of them
ToolListInputs ==
    {[iterable |-> TRUE, items |-> s] :
        s \in SeqsUpTo({[shape |-> "Tool", tool |-> t] : t \in ToolInstances}, MaxTools)}
    \cup {[iterable |-> FALSE, items |-> <<[shape |-> "Tool", tool |-> t]>>] :
             t \in ToolInstances}

FunctionLibraryFromToolsCall == FunctionLibraryInitFrom(ToolListInputs)

LibraryGetItemCall ==
    /\ last.op = "FunctionLibrary.__init__"
    /\ lib # NoObject
    /\ \E name \in LookupArgs :
          last' = Call("FunctionLibrary.__getitem__", <<name>>, GetItem(lib, name))
    /\ invoked' = <<>>
    /\ UNCHANGED <<tool, lib, caller>>

LibraryCallCall ==
    /\ last.op = "FunctionLibrary.__init__"
    /\ lib # NoObject
    /\ \E fc \in FunctionCalls : \E r \in {LibraryCall(lib, fc)} :
             /\ last' = Call("FunctionLibrary.__call__", <<fc>>, r.out)
             /\ invoked' = r.inv
    /\ UNCHANGED <<tool, lib, caller>>

SchemaNext == GenerateSchemaCall
SpecSchema == Init /\ [][SchemaNext]_vars

ModeNext == ToFunctionCallingModeCall
SpecMode == Init /\ [][ModeNext]_vars

CoerceNext ==
    \/ RenameSchemaFieldsCall
    \/ ToFunctionCallingConfigCall
    \/ ToToolConfigCall
SpecCoerce == Init /\ [][CoerceNext]_vars

LibraryNext ==
    \/ MakeToolsCall
    \/ FunctionLibraryInitCall
SpecLibrary == Init /\ [][LibraryNext]_vars

DispatchNext ==
    \/ ToolInitCall
    \/ ToolGetItemCall
    \/ ToolCallCall
    \/ DeclCallCall
    \/ FunctionLibraryFromToolsCall
    \/ LibraryGetItemCall
    \/ LibraryCallCall
SpecDispatch == Init /\ [][DispatchNext]_vars

Next ==
    \/ SchemaNext
    \/ ModeNext
    \/ CoerceNext
    \/ LibraryNext
    \/ DispatchNext
Spec == Init /\ [][Next]_vars

----------------------------------------------------------------------------
(* Properties. *)

\* the names of a sequence of declarations are pairwise distinct
DistinctNames(ds) == \A i, j \in DOMAIN ds : i < j => ds[i].name # ds[j].name

\* an input of one of the accepted shapes: an object of a declaration class,
\* a dict description, or a python function
Accepted(fds) == \A i \in DOMAIN fds : fds[i].shape # "other"

\* C1: a Tool built from accepted declaration inputs fails with the
\* duplicate-name error, leaving no Tool, when two inputs share a name, and
\* otherwise is built and returns, for each input d, the declaration d
\* under d's name.
C1_ToolConstruction ==
    (last.op = "Tool.__init__" /\ Accepted(last.args[1])) =>
        LET fds == last.args[1]
        IN IF ~DistinctNames(fds)
           THEN last.out.raised = "ValueError" /\ tool = NoObject
           ELSE /\ Returned(last.out)
                /\ tool # NoObject
                /\ \A i \in DOMAIN fds :
                      LET r == GetItem(tool, Str(InputName(fds[i])))
                      IN /\ Returned(r)
                         /\ r.value.name = InputName(fds[i])
                         /\ r.value.function = fds[i].function

\* the response the specification gives for a call of fn with kwargs
Wrapped(v) == IF IsDict(v) THEN v ELSE PyDict([k \in {"result"} |-> v])

\* C5: a FunctionCall naming a callable declaration d registered in a Tool
\* invokes d's implementation once with the call's arguments and returns a
\* FunctionResponse under d's name, holding {"result": v} for a non-struct v
\* and v itself for a struct.
C5_DispatchCallable ==
    (last.op = "Tool.__init__" /\ Accepted(last.args[1]) /\ DistinctNames(last.args[1])) =>
        \A i \in DOMAIN last.args[1] :
            LET d == last.args[1][i]
            IN d.function # NoFunction =>
                 /\ tool # NoObject
                 /\ \A fc \in FunctionCalls :
                       (fc.name = d.name /\ Returned(Apply(d.function, fc.args))) =>
                           ToolCall(tool, fc) =
                               [out |-> Return(FunctionResponse(d.name,
                                           Wrapped(Apply(d.function, fc.args).value))),
                                inv |-> <<[function |-> d.function, kwargs |-> fc.args]>>]

\* the names that two different tools of ts both declare
SharedNames(ts) ==
    {n \in Names : \E i, j \in DOMAIN ts :
        /\ i # j
        /\ \E a \in DOMAIN ts[i].function_declarations :
              ts[i].function_declarations[a].name = n
        /\ \E b \in DOMAIN ts[j].function_declarations :
              ts[j].function_declarations[b].name = n}

\* C2: a FunctionLibrary is built only if no name occurs in two declarations
\* of its tools; a built library indexes each declaration of each of its
\* tools exactly once, and library[name] is the declaration of that name.
C2_LibraryUniqueness ==
    (last.op = "FunctionLibrary.__init__" /\ Returned(last.out)) =>
        LET made == MakeEach(last.args[1].items, 1, <<>>)
            ds == AllDeclarations(lib.tools)
        IN /\ Returned(made)
           /\ DistinctNames(AllDeclarations(made.value))
           /\ lib = last.out.value
           /\ DistinctNames(ds)
           /\ Cardinality(DOMAIN lib.index) = Len(ds)
           /\ \A i \in DOMAIN ds : GetItem(lib, Str(ds[i].name)) = Return(ds[i])

\* C2 witness: a library of two tools and three declarations has been built
C2_Witness ==
    /\ last.op = "FunctionLibrary.__init__"
    /\ lib # NoObject
    /\ Len(lib.tools) = 2
    /\ Cardinality(DOMAIN lib.index) = 3

\* C3: when the tools given to FunctionLibrary are each well formed and two
\* of them declare the same name, construction fails with the descriptive
\* collision error, whose message names a shared function.
C3_DescriptiveCollision ==
    last.op = "FunctionLibrary.__init__" =>
        LET made == MakeEach(last.args[1].items, 1, <<>>)
        IN (Returned(made) /\ SharedNames(made.value) # {}) =>
              /\ last.out.raised = "ValueError"
              /\ Len(last.out.msg) = 3
              /\ last.out.msg[2] \in SharedNames(made.value)

\* the declaration lists the flattening rule gives for the coerced tools ts
FlattenedDecls(ts) ==
    IF Len(ts) > 1 /\ AllSingle(ts)
    THEN <<AllDeclarations(ts)>>
    ELSE [i \in DOMAIN ts |-> ts[i].function_declarations]

\* the result is as the flattening rule says: one Tool holding every
\* declaration in order, or the coerced tools themselves, unchanged
FlattenResult(out, ts) ==
    /\ Returned(out)
    /\ [i \in DOMAIN out.value |-> out.value[i].function_declarations] = FlattenedDecls(ts)
    /\ \A i \in DOMAIN out.value :
          DOMAIN out.value[i].index =
             {out.value[i].function_declarations[k].name :
                 k \in DOMAIN out.value[i].function_declarations}
    /\ ~(Len(ts) > 1 /\ AllSingle(ts)) => out.value = ts
    /\ AllDeclarations(out.value) = AllDeclarations(ts)

\* C4 as stated: for an iterable input whose elements coerce to T1..Tn,
\* _make_tools returns one Tool holding the declarations of T1..Tn in order
\* when n > 1 and every Ti has one declaration, and T1..Tn otherwise; the
\* declarations of the result are those of the input, in order.
C4_FlattenAlways ==
    (last.op = "_make_tools" /\ last.args[1].iterable) =>
        LET made == MakeEach(last.args[1].items, 1, <<>>)
        IN Returned(made) => FlattenResult(last.out, made.value)

\* C4, amended: as C4, except that when the flattening applies and two of
\* the declarations share a name, _make_tools returns nothing and raises
\* the duplicate-name ValueError of Tool.
C4_FlattenUnlessDuplicate ==
    (last.op = "_make_tools" /\ last.args[1].iterable) =>
        LET made == MakeEach(last.args[1].items, 1, <<>>)
            ts == made.value
        IN Returned(made) =>
              IF Len(ts) > 1 /\ AllSingle(ts) /\ ~DistinctNames(AllDeclarations(ts))
              THEN last.out.raised = "ValueError"
              ELSE FlattenResult(last.out, ts)

\* C4 witness: two inputs of one declaration each were flattened into one Tool
C4_Witness ==
    /\ last.op = "_make_tools"
    /\ last.args[1].iterable
    /\ Len(last.args[1].items) = 2
    /\ Returned(last.out)
    /\ Len(last.out.value) = 1
    /\ Len(last.out.value[1].function_declarations) = 2

\* s spells the lower-case string t, in any letter case
Spells(s, t) ==
    /\ Len(s) = Len(t)
    /\ \A i \in DOMAIN s : s[i] = t[i] \/ s[i] = UpperOf(t[i])

\* the aliases of mode m: its code, its enum value, its name and its
\* prefixed name in any letter case
IsAliasOf(x, m) ==
    LET nm == CASE m = "AUTO" -> <<"a", "u", "t", "o">>
                [] m = "ANY" -> <<"a", "n", "y">>
                [] m = "NONE" -> <<"n", "o", "n", "e">>
    IN \/ IsInt(x) /\ x.int = ModeCode(m)
       \/ IsEnum(x) /\ x.enum = m
       \/ IsStr(x) /\ (Spells(x.chars, nm) \/ Spells(x.chars, <<"m", "o", "d", "e", "_">> \o nm))

\* C6: to_function_calling_mode returns AUTO, ANY or NONE for every alias of
\* that mode, and raises KeyError for every input that is no alias.
C6_ModeAliases ==
    last.op = "to_function_calling_mode" =>
        LET x == last.args[1]
        IN /\ \A m \in {"AUTO", "ANY", "NONE"} :
                 IsAliasOf(x, m) => last.out = Return(m)
           /\ (\A m \in {"AUTO", "ANY", "NONE"} : ~IsAliasOf(x, m)) =>
                 last.out.raised = "KeyError"

\* C6 witness: "MODE_ANY" resolved to ANY
C6_Witness ==
    /\ last.op = "to_function_calling_mode"
    /\ last.args[1] = StrKey(<<"M", "O", "D", "E", "_", "A", "N", "Y">>)
    /\ last.out = Return("ANY")

\* C7: for a function whose parameters are all annotated and not variadic,
\* the schema has one property per parameter, requires (when no list is
\* given) the parameters without a default, and marks a property nullable
\* exactly when its annotation is a union that includes None.
C7_SchemaDerivation ==
    LET f == last.args[1]
        required == last.args[2]
        FullyAnnotated == \A i \in DOMAIN f.params :
                             /\ f.params[i].annotation.origin # "empty"
                             /\ f.params[i].kind \in NamedKinds
        schema == last.out.value
    IN (last.op = "_generate_schema" /\ FullyAnnotated) =>
          /\ Returned(last.out)
          /\ [i \in DOMAIN schema.properties |-> schema.properties[i].name]
                = [i \in DOMAIN f.params |-> f.params[i].name]
          /\ ~required.given =>
                schema.required =
                    SelectSeqBy([i \in DOMAIN f.params |-> f.params[i].name],
                                {p.name : p \in {q \in Range(f.params) : ~q.has_default}})
          /\ \A i \in DOMAIN schema.properties :
                schema.properties[i].nullable <=>
                    /\ f.params[i].annotation.origin \in {"typing.Union", "types.UnionType"}
                    /\ "NoneType" \in f.params[i].annotation.args

\* C10: a list given as `required`, of any length, is the schema's required
\* list; the list is inferred only when none was given.
C10_ExplicitRequired ==
    last.op = "_generate_schema" =>
        LET f == last.args[1]
            required == last.args[2]
        IN /\ Returned(last.out)
           /\ required.given => last.out.value.required = required.list
           /\ ~required.given =>
                 last.out.value.required =
                    SelectSeqBy([i \in DOMAIN f.params |-> f.params[i].name],
                                {p.name : p \in {q \in Range(f.params) :
                                                    ~q.has_default /\ q.kind \in NamedKinds}})

\* C8: after _rename_schema_fields, to_function_calling_config or
\* to_tool_config returns or raises, the dict that was passed in is as it
\* was before the call.
C8_InputNotMutated ==
    last.op \in {"_rename_schema_fields", "to_function_calling_config", "to_tool_config"} =>
        caller = last.args[1]

\* the declarations named n among those a Tool or FunctionLibrary holds
Declared(self, n) ==
    LET ds == IF self.cls = "Tool" THEN self.function_declarations
              ELSE AllDeclarations(self.tools)
    IN {ds[i] : i \in {j \in DOMAIN ds : ds[j].name = n}}

\* C9: lookup and dispatch of an undeclared name raise KeyError and invoke
\* nothing; dispatch to a declaration with no bound implementation returns
\* None and invokes nothing; a response is returned only for a declaration
\* with a bound implementation.
C9_DispatchOutcomes ==
    LET self == IF last.op \in {"Tool.__getitem__", "Tool.__call__"} THEN tool ELSE lib
        found == Declared(self, ArgName(last.args[1]))
    IN /\ last.op \in {"Tool.__getitem__", "FunctionLibrary.__getitem__"} =>
             /\ invoked = <<>>
             /\ found = {} => last.out.raised = "KeyError"
             /\ found # {} => Returned(last.out) /\ last.out.value \in found
       /\ last.op \in {"Tool.__call__", "FunctionLibrary.__call__"} =>
             /\ found = {} => last.out.raised = "KeyError" /\ invoked = <<>>
             /\ (found # {} /\ \A d \in found : d.function = NoFunction) =>
                   last.out = Return(None) /\ invoked = <<>>
             /\ (Returned(last.out) /\ last.out.value # None) =>
                   \E d \in found : d.function # NoFunction

\* C9 witness: a library dispatched a call to a declaration that has no
\* implementation and returned None
C9_Witness ==
    /\ last.op = "FunctionLibrary.__call__"
    /\ Declared(lib, last.args[1].name) # {}
    /\ last.out = Return(None)
    /\ invoked = <<>>

====
